---------------------------- MODULE Spec2Model ----------------------------
(* fastlmi: the plugin-manifest endpoint, the logo-serving helper and the  *)
(* service-token auth dependency of FastLMI (src/fastlmi/application.py,   *)
(* src/fastlmi/auth.py, src/fastlmi/ai_plugin/models.py).                  *)
(*                                                                         *)
(* Python str values are TLA+ strings; startswith, removeprefix and rstrip *)
(* are computed on their characters.  Python's None of an Optional[str] is *)
(* the reserved value None, which no input set below contains as text.     *)
EXTENDS Integers, Sequences, FiniteSets, TLC

VARIABLES
  phase,                   \* "init": fields assigned (application.py 45-51); "ready": setup() has run
  openapi_url,             \* FastAPI's openapi_url (kwargs, application.py 57); None disables the schema
  ai_plugin_manifest_url,  \* self.ai_plugin_manifest_url
  logo_url,                \* self.logo_url
  auth,                    \* self.auth: the strategy object, or NoStrategy for auth=None
  routes,                  \* the router's registered routes
  reqs,                    \* manifest requests in flight, each with the handler's locals
  logo_call,               \* the last serve_local_logo call and how it ended
  n_logo_calls,            \* how many serve_local_logo calls were made
  logo_served,             \* the url of the last serve_local_logo call that returned, or None
  auth_call                \* the last call of the auth dependency and how it ended

vars == <<phase, openapi_url, ai_plugin_manifest_url, logo_url, auth, routes,
          reqs, logo_call, n_logo_calls, logo_served, auth_call>>

----------------------------------------------------------------------------
(* Bounds *)

MaxReqs == 2

MaxLogoCalls == 2

----------------------------------------------------------------------------
(* Python strings *)

None == "<None>"

\* truthiness of an Optional[str]: None and "" are falsy
Truthy(s) == s # None /\ s # ""

startswith(s, p) == Len(s) >= Len(p) /\ SubSeq(s, 1, Len(p)) = p

removeprefix(s, p) == IF startswith(s, p) THEN SubSeq(s, Len(p) + 1, Len(s)) ELSE s

RECURSIVE rstrip(_, _)
rstrip(s, c) ==
  IF Len(s) > 0 /\ SubSeq(s, Len(s), Len(s)) = c
  THEN rstrip(SubSeq(s, 1, Len(s) - 1), c)
  ELSE s

----------------------------------------------------------------------------
(* ai_plugin/models.py *)

ManifestNoAuth == [type |-> "none"]

ManifestServiceHttpAuth(authorization_type, verification_tokens) ==
  [type |-> "service_http",
   authorization_type |-> authorization_type,
   verification_tokens |-> verification_tokens]

ApiSpec_openapi(url) == [type |-> "openapi", url |-> url, is_user_authenticated |-> FALSE]

\* the fields of PluginManifest the handler computes; the remaining ones
\* (names, descriptions, contact_email, legal_info_url) are copied through
\* from the constructor's arguments
PluginManifest(schema_version, auth_fragment, api, logo) ==
  [schema_version |-> schema_version, auth |-> auth_fragment, api |-> api, logo_url |-> logo]

----------------------------------------------------------------------------
(* auth.py *)

\* FastLMI(auth=None)
NoStrategy == [kind |-> "None"]

LMINoAuth == [kind |-> "LMINoAuth"]

ValueErrorRaised == [kind |-> "ValueError"]

\* a dict is the set of its <<key, value>> pairs; the Optional dict argument
\* is <<>> for None and <<d>> for the dict d
LMIServiceAuth_init(access_tokens, authorization_type, verification_tokens) ==
  LET vt == IF verification_tokens = <<>> THEN {} ELSE verification_tokens[1]
  IN  IF authorization_type \notin {"bearer", "basic"}
      THEN ValueErrorRaised
      ELSE [kind |-> "LMIServiceAuth",
            access_tokens |-> access_tokens,
            authorization_type |-> authorization_type,
            verification_tokens |-> vt]

LMINoAuth_ai_plugin == ManifestNoAuth

LMIServiceAuth_ai_plugin_bearer_only(self) ==
  ManifestServiceHttpAuth("bearer", self.verification_tokens)

LMIServiceAuth_ai_plugin(self) ==
  ManifestServiceHttpAuth(self.authorization_type, self.verification_tokens)

\* self.auth.ai_plugin(), dispatched on the strategy's class
ai_plugin_of(self) ==
  IF self.kind = "LMINoAuth" THEN LMINoAuth_ai_plugin ELSE LMIServiceAuth_ai_plugin(self)

\* outcomes of the auth dependency
Returned(v) == [raised |-> "", status |-> 0, detail |-> "", value |-> v]

HTTPException(status_code, detail) ==
  [raised |-> "HTTPException", status |-> status_code, detail |-> detail, value |-> FALSE]

ValueErrorAtCall == [raised |-> "ValueError", status |-> 0, detail |-> "", value |-> FALSE]

LMINoAuth_call(authorization) == Returned(TRUE)

\* a variant that looks the token up without checking the scheme prefix
LMIServiceAuth_call_no_prefix(self, authorization) ==
  IF authorization = None
  THEN HTTPException(401, "Expected authorization token")
  ELSE IF removeprefix(removeprefix(authorization, "Bearer "), "Basic ") \notin self.access_tokens
  THEN HTTPException(400, "Invalid authorization token")
  ELSE Returned(TRUE)

\* a variant that looks the token up before it checks the prefix
LMIServiceAuth_call_lookup_first(self, authorization) ==
  LET prefix == IF self.authorization_type = "bearer" THEN "Bearer " ELSE "Basic "
  IN  IF authorization = None
      THEN HTTPException(401, "Expected authorization token")
      ELSE IF removeprefix(authorization, prefix) \notin self.access_tokens
      THEN HTTPException(400, "Invalid authorization token")
      ELSE IF ~startswith(authorization, prefix)
      THEN HTTPException(400, "Malformed authorization token")
      ELSE Returned(TRUE)

LMIServiceAuth_call(self, authorization) ==
  IF authorization = None
  THEN HTTPException(401, "Expected authorization token")
  ELSE IF self.authorization_type = "bearer"
  THEN IF ~startswith(authorization, "Bearer ")
       THEN HTTPException(400, "Malformed authorization token")
       ELSE IF removeprefix(authorization, "Bearer ") \notin self.access_tokens
       THEN HTTPException(400, "Invalid authorization token")
       ELSE Returned(TRUE)
  ELSE IF self.authorization_type = "basic"
  THEN IF ~startswith(authorization, "Basic ")
       THEN HTTPException(400, "Malformed authorization token")
       ELSE IF removeprefix(authorization, "Basic ") \notin self.access_tokens
       THEN HTTPException(400, "Invalid authorization token")
       ELSE Returned(TRUE)
  ELSE ValueErrorAtCall

\* the strategy used as a dependency: __call__, dispatched on its class
auth_dependency(self, authorization) ==
  IF self.kind = "LMINoAuth"
  THEN LMINoAuth_call(authorization)
  ELSE LMIServiceAuth_call(self, authorization)

----------------------------------------------------------------------------
(* application.py: the inputs *)

DefaultManifestUrl == "/.well-known/ai-plugin.json"

DefaultLogoUrl == "https://public.mechanus.zhu.codes/fastlmi_logo.png"

\* constructor arguments
OpenapiUrls == {None, "/openapi.json"}

ManifestUrls == {None, "", DefaultManifestUrl}

LogoUrls == {None, "", "/logo.png", "https://cdn.example/x.png"}

\* LMIServiceAuth(access_tokens, authorization_type, verification_tokens)
ServiceAuthArgs ==
  {<<{"secret"}, "bearer", <<>>>>,
   <<{"secret"}, "basic", <<{}>>>>,
   <<{"secret", "Bearer s3"}, "bearer", <<{<<"openai", "vtok">>}>>>>,
   <<{"secret", "Bearer s3"}, "basic", <<{<<"openai", "vtok">>}>>>>,
   <<{"secret"}, "digest", <<>>>>}

\* every value the auth argument of FastLMI can take: None, LMINoAuth(), or
\* an LMIServiceAuth whose constructor returned
AuthArgs ==
  {NoStrategy, LMINoAuth} \cup
  {a \in {LMIServiceAuth_init(x[1], x[2], x[3]) : x \in ServiceAuthArgs} :
     a.kind # "ValueError"}

\* what a manifest request carries: req.url.components and scope["root_path"]
Schemes == {"http", "https"}

Netlocs == {"example.com"}

RootPaths == {"", "/api"}

\* the Authorization header: None when absent
Authorizations ==
  {None, "Bearer secret", "Bearer wrong", "Basic secret", "bearer secret",
   "secret", "Bearer Bearer s3", "Basic Bearer s3"}

\* serve_local_logo's arguments; the file system the paths name.  A route's
\* path starts with "/" (the router accepts no other).
Paths == {"logo.png", "static", "missing.png"}

LogoRoutePaths == {"/logo", "/logo.png"}

os_stat(path) ==
  CASE path = "logo.png" -> [raised |-> "", st_mode |-> "S_IFREG"]
    [] path = "static"   -> [raised |-> "", st_mode |-> "S_IFDIR"]
    [] OTHER             -> [raised |-> "FileNotFoundError", st_mode |-> ""]

S_ISREG(mode) == mode = "S_IFREG"

----------------------------------------------------------------------------
(* application.py: FastLMI *)

NoResponse == [schema_version |-> ""]

IdleReq ==
  [pc |-> "idle", scheme |-> "", netloc |-> "", root_path |-> "",
   root_url |-> "", openapi_url |-> "", logo_url |-> "", resp |-> NoResponse,
   raced |-> FALSE]

NoLogoCall ==
  [made |-> FALSE, path |-> "", url |-> "", stat_kw |-> FALSE, raised |-> "",
   logo_before |-> None, registered |-> FALSE]

NoAuthCall == [made |-> FALSE, authorization |-> None, outcome |-> Returned(FALSE)]

ManifestRoute(path) == [path |-> path, endpoint |-> "ai_plugin_manifest", file |-> ""]

LogoRoute(url, path) == [path |-> url, endpoint |-> "_local_serve", file |-> path]

\* __init__, lines 45-51: the fields as the constructor's arguments set them
Init ==
  /\ phase = "init"
  /\ openapi_url \in OpenapiUrls
  /\ ai_plugin_manifest_url \in ManifestUrls
  /\ logo_url \in LogoUrls
  /\ auth \in AuthArgs
  /\ routes = {}
  /\ reqs = [r \in 1..MaxReqs |-> IdleReq]
  /\ logo_call = NoLogoCall
  /\ n_logo_calls = 0
  /\ logo_served = None
  /\ auth_call = NoAuthCall

\* a variant of setup's condition that forgets the openapi_url
setup_registers_manifest_only(openapi, manifest_url) == Truthy(manifest_url)

\* setup, line 61
setup_registers(openapi, manifest_url) == Truthy(openapi) /\ Truthy(manifest_url)

\* setup (called by the base class's __init__, line 57)
setup ==
  /\ phase = "init"
  /\ phase' = "ready"
  /\ routes' = IF setup_registers(openapi_url, ai_plugin_manifest_url)
               THEN routes \cup {ManifestRoute(ai_plugin_manifest_url)}
               ELSE routes
  /\ UNCHANGED <<openapi_url, ai_plugin_manifest_url, logo_url, auth, reqs,
                 logo_call, n_logo_calls, logo_served, auth_call>>

\* line 72
root_url_of(scheme, netloc, root_path) ==
  rstrip(scheme \o "://" \o netloc \o "/" \o root_path, "/")

\* line 74
logo_is_root_relative(cfg) == Truthy(cfg) /\ startswith(cfg, "/")

\* line 75
logo_resolved(root_url, cfg) == root_url \o cfg

\* a variant of line 77 that tests for None instead of truthiness
logo_fallback_is_none(cfg) == IF cfg # None THEN cfg ELSE DefaultLogoUrl

\* line 77
logo_fallback(cfg) == IF Truthy(cfg) THEN cfg ELSE DefaultLogoUrl

\* line 78
ai_plugin_auth_of(strategy) ==
  IF strategy # NoStrategy THEN ai_plugin_of(strategy) ELSE ManifestNoAuth

\* the router dispatches a request to the handler of a registered route
ManifestRouteExposed == \E rt \in routes : rt.endpoint = "ai_plugin_manifest"

\* ai_plugin_manifest, lines 68-74: the request's components, root_url,
\* openapi_url, and the test of self.logo_url.  Lines 75 and 77 read
\* self.logo_url again, in a step of their own: the handler is a plain
\* function the framework runs on a worker thread.
ai_plugin_manifest_68(r) ==
  /\ phase = "ready"
  /\ ManifestRouteExposed
  /\ reqs[r].pc = "idle"
  /\ \E scheme \in Schemes, netloc \in Netlocs, root_path \in RootPaths :
       LET root_url == root_url_of(scheme, netloc, root_path)
       IN  reqs' = [reqs EXCEPT ![r] =
                      [@ EXCEPT !.pc = IF logo_is_root_relative(logo_url) THEN "l75" ELSE "l77",
                                !.scheme = scheme, !.netloc = netloc, !.root_path = root_path,
                                !.root_url = root_url,
                                !.openapi_url = root_url \o openapi_url]]
  /\ UNCHANGED <<phase, openapi_url, ai_plugin_manifest_url, logo_url, auth, routes,
                 logo_call, n_logo_calls, logo_served, auth_call>>

\* line 75
ai_plugin_manifest_75(r) ==
  /\ reqs[r].pc = "l75"
  /\ reqs' = [reqs EXCEPT ![r] =
                [@ EXCEPT !.pc = "l78", !.logo_url = logo_resolved(reqs[r].root_url, logo_url)]]
  /\ UNCHANGED <<phase, openapi_url, ai_plugin_manifest_url, logo_url, auth, routes,
                 logo_call, n_logo_calls, logo_served, auth_call>>

\* line 77
ai_plugin_manifest_77(r) ==
  /\ reqs[r].pc = "l77"
  /\ reqs' = [reqs EXCEPT ![r] =
                [@ EXCEPT !.pc = "l78", !.logo_url = logo_fallback(logo_url)]]
  /\ UNCHANGED <<phase, openapi_url, ai_plugin_manifest_url, logo_url, auth, routes,
                 logo_call, n_logo_calls, logo_served, auth_call>>

\* a variant of lines 78-94 that keeps the resolved logo URL on the application
ai_plugin_manifest_78_caching(r) ==
  /\ reqs[r].pc = "l78"
  /\ reqs' = [reqs EXCEPT ![r] =
                [@ EXCEPT !.pc = "done",
                          !.resp = PluginManifest("v1", ai_plugin_auth_of(auth),
                                                  ApiSpec_openapi(reqs[r].openapi_url),
                                                  reqs[r].logo_url)]]
  /\ logo_url' = reqs[r].logo_url
  /\ UNCHANGED <<phase, openapi_url, ai_plugin_manifest_url, auth, routes,
                 logo_call, n_logo_calls, logo_served, auth_call>>

\* lines 78-94: the auth fragment, the manifest, the response
ai_plugin_manifest_78(r) ==
  /\ reqs[r].pc = "l78"
  /\ reqs' = [reqs EXCEPT ![r] =
                [@ EXCEPT !.pc = "done",
                          !.resp = PluginManifest("v1", ai_plugin_auth_of(auth),
                                                  ApiSpec_openapi(reqs[r].openapi_url),
                                                  reqs[r].logo_url)]]
  /\ UNCHANGED <<phase, openapi_url, ai_plugin_manifest_url, logo_url, auth, routes,
                 logo_call, n_logo_calls, logo_served, auth_call>>

\* a variant of lines 105-114 that does not look at the file's mode
serve_local_logo_stat_no_isreg(path, stat_kw) ==
  IF ~stat_kw
  THEN (IF os_stat(path).raised # "" THEN os_stat(path).raised ELSE "")
  ELSE ""

\* lines 105-114: what the stat of the path raises, "" when nothing
serve_local_logo_stat(path, stat_kw) ==
  IF ~stat_kw
  THEN (IF os_stat(path).raised # ""
        THEN os_stat(path).raised
        ELSE IF ~S_ISREG(os_stat(path).st_mode) THEN "ValueError" ELSE "")
  ELSE ""

\* the response has been sent and the handler's frame is gone
deliver(r) ==
  /\ reqs[r].pc = "done"
  /\ reqs' = [reqs EXCEPT ![r] = IdleReq]
  /\ UNCHANGED <<phase, openapi_url, ai_plugin_manifest_url, logo_url, auth, routes,
                 logo_call, n_logo_calls, logo_served, auth_call>>

\* serve_local_logo(path, url, **kwargs); stat_kw: "stat_result" in kwargs
\* (the media_type guessed at line 116 plays no part in what follows).
\* Line 102 assigns self.logo_url before the file is looked at.  A request
\* whose handling overlaps the call is marked raced.
serve_local_logo ==
  /\ phase = "ready"
  /\ n_logo_calls < MaxLogoCalls
  /\ \E path \in Paths, url \in LogoRoutePaths, stat_kw \in BOOLEAN :
       LET raised == serve_local_logo_stat(path, stat_kw)
       IN  /\ logo_url' = url
           /\ routes' = IF raised = "" THEN routes \cup {LogoRoute(url, path)} ELSE routes
           /\ logo_served' = IF raised = "" THEN url ELSE logo_served
           /\ logo_call' = [made |-> TRUE, path |-> path, url |-> url, stat_kw |-> stat_kw,
                            raised |-> raised, logo_before |-> logo_url,
                            registered |-> raised = ""]
  /\ n_logo_calls' = n_logo_calls + 1
  /\ reqs' = [r \in 1..MaxReqs |->
                IF reqs[r].pc # "idle"
                THEN [reqs[r] EXCEPT !.raced = TRUE]
                ELSE reqs[r]]
  /\ UNCHANGED <<phase, openapi_url, ai_plugin_manifest_url, auth, auth_call>>

\* a request to a route guarded by Depends(auth)
authenticate ==
  /\ phase = "ready"
  /\ auth # NoStrategy
  /\ \E authorization \in Authorizations :
       auth_call' = [made |-> TRUE, authorization |-> authorization,
                     outcome |-> auth_dependency(auth, authorization)]
  /\ UNCHANGED <<phase, openapi_url, ai_plugin_manifest_url, logo_url, auth, routes,
                 reqs, logo_call, n_logo_calls, logo_served>>

\* every operation, with one manifest request at a time; the specifications
\* below take the program by its parts, and SpecServe takes MaxReqs
\* requests at once
Next ==
  \/ setup
  \/ ai_plugin_manifest_68(1)
  \/ ai_plugin_manifest_75(1)
  \/ ai_plugin_manifest_77(1)
  \/ ai_plugin_manifest_78(1)
  \/ deliver(1)
  \/ serve_local_logo
  \/ authenticate

Spec == Init /\ [][Next]_vars

\* the auth dependency alone
NextAuth ==
  \/ setup
  \/ authenticate

SpecAuth == Init /\ [][NextAuth]_vars

\* logo registration alone
NextLogo ==
  \/ setup
  \/ serve_local_logo

SpecLogo == Init /\ [][NextLogo]_vars

\* request serving: concurrent manifest requests and auth calls
NextServe ==
  \/ setup
  \/ \E r \in 1..MaxReqs : ai_plugin_manifest_68(r)
  \/ \E r \in 1..MaxReqs : ai_plugin_manifest_75(r)
  \/ \E r \in 1..MaxReqs : ai_plugin_manifest_77(r)
  \/ \E r \in 1..MaxReqs : ai_plugin_manifest_78(r)
  \/ \E r \in 1..MaxReqs : deliver(r)
  \/ authenticate

SpecServe == Init /\ [][NextServe]_vars

\* the application without an auth strategy: logo registration, and one
\* manifest request at a time (requests do not interact: SpecServe)
InitApp == Init /\ auth = NoStrategy

NextApp ==
  \/ setup
  \/ ai_plugin_manifest_68(1)
  \/ ai_plugin_manifest_75(1)
  \/ ai_plugin_manifest_77(1)
  \/ ai_plugin_manifest_78(1)
  \/ deliver(1)
  \/ serve_local_logo

SpecApp == InitApp /\ [][NextApp]_vars

----------------------------------------------------------------------------
(* Properties *)

Done(r) == reqs[r].pc = "done"

\* the scheme's prefix of the Authorization header
SchemePrefix(authorization_type) ==
  IF authorization_type = "bearer" THEN "Bearer " ELSE "Basic "

\* scheme://netloc with the root path reattached and no trailing slash
ExternalBaseUrl(scheme, netloc, root_path) ==
  scheme \o "://" \o netloc \o rstrip(root_path, "/")

\* C1: every manifest response's api.url is the externally visible base URL
\* (scheme://netloc, the root path reattached, no trailing slash) followed
\* by the OpenAPI schema path; https, example.com, /api, /openapi.json give
\* "https://example.com/api/openapi.json".
C1_ApiUrlIsExternalBasePlusSchemaPath ==
  \A r \in 1..MaxReqs :
    Done(r) =>
      /\ reqs[r].resp.api.url =
           ExternalBaseUrl(reqs[r].scheme, reqs[r].netloc, reqs[r].root_path) \o openapi_url
      /\ (reqs[r].scheme = "https" /\ reqs[r].netloc = "example.com"
            /\ reqs[r].root_path = "/api" /\ openapi_url = "/openapi.json"
          => reqs[r].resp.api.url = "https://example.com/api/openapi.json")
      /\ (reqs[r].scheme = "https" /\ reqs[r].netloc = "example.com"
            /\ reqs[r].root_path = "" /\ openapi_url = "/openapi.json"
          => reqs[r].resp.api.url = "https://example.com/openapi.json")

\* C2: a service-auth strategy accepts a request exactly when the
\* Authorization header is present and is the configured scheme's prefix
\* followed by a member of the access-token set.
C2_AcceptsIffPrefixedAccessToken ==
  (auth.kind = "LMIServiceAuth" /\ auth_call.made) =>
    ( auth_call.outcome = Returned(TRUE)
      <=> /\ auth_call.authorization # None
          /\ \E t \in auth.access_tokens :
               auth_call.authorization = SchemePrefix(auth.authorization_type) \o t )

C2_Witness ==
  /\ auth.kind = "LMIServiceAuth"
  /\ auth.authorization_type = "basic"
  /\ auth_call.made
  /\ auth_call.authorization = "Basic Bearer s3"
  /\ auth_call.outcome = Returned(TRUE)

\* C3: a rejected request gets exactly one error kind: 401 exactly when the
\* header is absent, 400 "malformed" when it is present without the
\* scheme's prefix, 400 "invalid" when it has the prefix and the remainder
\* is no access token; the prefix is checked first, and no ValueError is
\* raised at request time by a strategy whose constructor returned.
C3_RejectionKinds ==
  (auth.kind = "LMIServiceAuth" /\ auth_call.made) =>
    LET h == auth_call.authorization
        o == auth_call.outcome
        p == SchemePrefix(auth.authorization_type)
    IN  /\ auth.authorization_type \in {"bearer", "basic"}
        /\ o \in {Returned(TRUE),
                  HTTPException(401, "Expected authorization token"),
                  HTTPException(400, "Malformed authorization token"),
                  HTTPException(400, "Invalid authorization token")}
        /\ (o.status = 401 <=> h = None)
        /\ (h # None /\ ~startswith(h, p)
            => o = HTTPException(400, "Malformed authorization token"))
        /\ (h # None /\ startswith(h, p) /\ removeprefix(h, p) \notin auth.access_tokens
            => o = HTTPException(400, "Invalid authorization token"))

C3_Witness ==
  /\ auth.kind = "LMIServiceAuth"
  /\ auth_call.made
  /\ auth_call.authorization \in auth.access_tokens
  /\ auth_call.outcome = HTTPException(400, "Malformed authorization token")

PathMissing(path) == os_stat(path).raised = "FileNotFoundError"

PathNotRegular(path) == os_stat(path).raised = "" /\ ~S_ISREG(os_stat(path).st_mode)

\* C4 as stated: serve_local_logo raises FileNotFoundError for a missing
\* path and ValueError for a path that is no regular file, and never
\* returns normally for either.
C4_PathAlwaysChecked ==
  logo_call.made =>
    /\ (PathMissing(logo_call.path) => logo_call.raised = "FileNotFoundError")
    /\ (PathNotRegular(logo_call.path) => logo_call.raised = "ValueError")

\* C4 as amended: when no stat_result keyword argument is passed,
\* serve_local_logo raises FileNotFoundError for a missing path and
\* ValueError for a path that is no regular file; when one is passed the
\* path is not examined and the call returns.
C4_PathCheckedUnlessStatResultGiven ==
  logo_call.made =>
    /\ (~logo_call.stat_kw /\ PathMissing(logo_call.path)
        => logo_call.raised = "FileNotFoundError")
    /\ (~logo_call.stat_kw /\ PathNotRegular(logo_call.path)
        => logo_call.raised = "ValueError")
    /\ (logo_call.stat_kw => logo_call.raised = "")
    /\ (logo_call.raised # "" <=> ~logo_call.registered)

C4_Witness ==
  /\ logo_call.made
  /\ ~logo_call.stat_kw
  /\ PathNotRegular(logo_call.path)
  /\ logo_call.raised = "ValueError"

\* C5: once a serve_local_logo(path, url) call has returned, logo_url is
\* url and a route serving the file is registered at url, and every later
\* manifest response has logo_url equal to the last registered route path
\* appended to that request's base URL.
C5_ManifestLogoIsRegisteredRoute ==
  /\ (logo_call.made /\ logo_call.raised = ""
      => /\ logo_url = logo_call.url
         /\ LogoRoute(logo_call.url, logo_call.path) \in routes)
  /\ \A r \in 1..MaxReqs :
       (Done(r) /\ ~reqs[r].raced /\ logo_served # None)
       => reqs[r].resp.logo_url = reqs[r].root_url \o logo_served

\* C6: the manifest's logo_url is the base URL followed by the configured
\* logo URL when that starts with "/", the configured logo URL itself when
\* it is set otherwise, and the default logo URL when it is None or empty;
\* it is never empty.  The base is the request's root URL as the handler
\* composed it.
C6_LogoResolution ==
  \A r \in 1..MaxReqs :
    Done(r) =>
      /\ reqs[r].resp.logo_url \notin {"", None}
      /\ ~reqs[r].raced =>
           /\ reqs[r].resp.logo_url =
                IF logo_url \notin {None, ""} /\ SubSeq(logo_url, 1, 1) = "/"
                THEN reqs[r].root_url \o logo_url
                ELSE IF logo_url \notin {None, ""} THEN logo_url
                ELSE "https://public.mechanus.zhu.codes/fastlmi_logo.png"
           /\ (logo_url = "/logo.png" /\ reqs[r].root_url = "https://example.com"
               => reqs[r].resp.logo_url = "https://example.com/logo.png")
           /\ (logo_url = "https://cdn.example/x.png"
               => reqs[r].resp.logo_url = "https://cdn.example/x.png")

C6_Witness ==
  \E r \in 1..MaxReqs :
    /\ Done(r) /\ ~reqs[r].raced
    /\ logo_call.made /\ logo_call.raised = ""
    /\ reqs[r].root_url = "https://example.com"
    /\ reqs[r].resp.logo_url = "https://example.com/logo.png"

\* C7: after setup the manifest route is registered exactly when both the
\* OpenAPI schema path and the manifest route path are configured; before
\* setup, and for ever when either is disabled, no manifest route is
\* exposed and no manifest request is handled, whatever logo routes are
\* registered and whatever requests arrive.
C7_ManifestRouteIffConfigured ==
  /\ (phase = "init" => ~ManifestRouteExposed)
  /\ (phase = "ready" =>
        (ManifestRouteExposed <=>
           openapi_url \notin {None, ""} /\ ai_plugin_manifest_url \notin {None, ""}))
  /\ (ManifestRouteExposed => ManifestRoute(ai_plugin_manifest_url) \in routes)
  /\ \A r \in 1..MaxReqs : reqs[r].pc # "idle" => ManifestRouteExposed

C7_Witness ==
  /\ phase = "ready"
  /\ ManifestRouteExposed
  /\ logo_call.made /\ logo_call.registered
  /\ Done(1)

\* C8: every manifest response has schema_version "v1" and an auth
\* fragment of type "none" when no strategy or LMINoAuth is configured,
\* and of type "service_http" with the scheme and the verification tokens
\* the LMIServiceAuth was constructed with (no tokens when none were given).
C8_AuthFragment ==
  \A r \in 1..MaxReqs :
    Done(r) =>
      /\ reqs[r].resp.schema_version = "v1"
      /\ (auth.kind \in {"None", "LMINoAuth"} => reqs[r].resp.auth = [type |-> "none"])
      /\ \A x \in ServiceAuthArgs :
           auth = LMIServiceAuth_init(x[1], x[2], x[3]) =>
             reqs[r].resp.auth =
               [type |-> "service_http",
                authorization_type |-> x[2],
                verification_tokens |-> IF x[3] = <<>> THEN {} ELSE x[3][1]]

C8_Witness ==
  \E r \in 1..MaxReqs :
    /\ Done(r)
    /\ auth.kind = "LMIServiceAuth"
    /\ reqs[r].resp.auth.type = "service_http"
    /\ reqs[r].resp.auth.authorization_type = "basic"
    /\ reqs[r].resp.auth.verification_tokens = {<<"openai", "vtok">>}

\* the manifest of a request handled alone
ManifestAlone(scheme, netloc, root_path) ==
  LET base == rstrip(scheme \o "://" \o netloc \o "/" \o root_path, "/")
  IN  [schema_version |-> "v1",
       auth |-> IF auth.kind = "LMIServiceAuth"
                THEN [type |-> "service_http",
                      authorization_type |-> auth.authorization_type,
                      verification_tokens |-> auth.verification_tokens]
                ELSE [type |-> "none"],
       api |-> [type |-> "openapi", url |-> base \o openapi_url,
                is_user_authenticated |-> FALSE],
       logo_url |-> IF logo_url \in {None, ""} THEN DefaultLogoUrl
                    ELSE IF SubSeq(logo_url, 1, 1) = "/" THEN base \o logo_url
                    ELSE logo_url]

\* C9: while requests are served, no step of a manifest request or of an
\* auth call changes the application's configuration, the strategy or the
\* routes, and under every interleaving each manifest response is the one
\* its own scheme, netloc and root path give when handled alone.
C9_RequestsIndependent ==
  /\ [](\A r \in 1..MaxReqs :
          Done(r) => reqs[r].resp =
                       ManifestAlone(reqs[r].scheme, reqs[r].netloc, reqs[r].root_path))
  /\ [][phase = "ready" =>
          UNCHANGED <<openapi_url, ai_plugin_manifest_url, logo_url, auth, routes>>]_vars

C9_Witness ==
  /\ Done(1) /\ Done(2)
  /\ reqs[1].root_path # reqs[2].root_path
  /\ reqs[1].scheme # reqs[2].scheme
  /\ reqs[1].resp # reqs[2].resp
  /\ auth_call.made

\* C10: a serve_local_logo call that raises leaves logo_url as it was and
\* registers no route.
C10_FailedLogoCallChangesNothing ==
  (logo_call.made /\ logo_call.raised # "") =>
    /\ logo_url = logo_call.logo_before
    /\ ~logo_call.registered

============================================================================
